---------------------------- MODULE Spec2Model ----------------------------
(***************************************************************************)
(* Auto-Glyph (src/autoglyph.py): glyph assignment for the notes of a      *)
(* vault.  The module models the response validator validate_glyphstream   *)
(* as an operator, and process_vault as a state machine over the notes on  *)
(* disk and the audit log.                                                 *)
(*                                                                         *)
(* A string of the program is a sequence of characters.  A character is    *)
(* written as a TLA+ string: one of the seven glyphs (named below), the    *)
(* blank " ", the comma "," or "x", a character that is none of these.     *)
(* A glyph symbol, a one-character string, is identified with its          *)
(* character wherever the program uses it as a dictionary key.             *)
(***************************************************************************)
EXTENDS Naturals, Sequences, FiniteSets

VARIABLES
    v_glyphs,       \* validate_glyphstream: the argument glyphs of the last call
    v_is_personal,  \* validate_glyphstream: the argument is_personal of the last call
    v_result,       \* validate_glyphstream: the value the last call returned
    v_done,         \* whether a call of validate_glyphstream has returned
    disk,           \* the vault: the content of each note's file
    model_text,     \* per note: the text the model answers about the note
    log_exists,     \* whether LOG_FILE exists
    log,            \* the lines of LOG_FILE, oldest first
    log_fault,      \* the environment: whether appending to LOG_FILE fails
    pc,             \* process_vault: where the run is
    run,            \* the number of runs of process_vault started so far
    idx,            \* process_vault: the place of md_file in the traversal
    post,           \* process_vault: the note loaded from md_file
    is_personal,    \* process_vault: the stream type of the note
    glyphstream,    \* process_vault: what llm_assign_glyphs returned
    processed_files,\* process_vault: the count of the final report
    loaded,         \* per note: the file content this run read, if it has read it
    model_calls,    \* per note: calls of llm.create_chat_completion in this run
    writes,         \* per note: what the calls of write_obsidian_file in this
                    \* run returned
    log_before,     \* the lines of LOG_FILE when this run started
    sleeps,         \* per note: calls of time.sleep in this run
    assigned,       \* per note: what the calls of llm_assign_glyphs in this run
                    \* returned
    model_failures, \* per note: calls of llm.create_chat_completion in this
                    \* run that raised
    disk_before     \* the vault when this run started

vvars == <<v_glyphs, v_is_personal, v_result, v_done>>
pvars == <<disk, model_text, log_exists, log, log_fault, pc, run, idx, post, is_personal,
           glyphstream, processed_files, loaded, model_calls, writes,
           log_before, sleeps, assigned, model_failures, disk_before>>
vars == <<vvars, pvars>>

---------------------------------------------------------------------------
(* GLYPH_LEXICON, autoglyph.py lines 28-71.  The symbols, in the order of  *)
(* the table: paradox, dual_witness, recursion, eternal, breath,           *)
(* temporal_fold, threshold_marker.                                        *)

LexiconOrder ==
    <<"paradox", "dual_witness", "recursion", "eternal", "breath",
      "temporal_fold", "threshold_marker">>

GLYPH_LEXICON ==
    [g \in {LexiconOrder[i] : i \in 1..Len(LexiconOrder)} |->
        CASE g = "paradox" ->
               [name |-> "Paradox Glyph",
                meanings |-> <<"paradox", "complex systems", "collapse",
                               "fragmentation", "ambiguous truth">>,
                archetypes |-> <<"The Trickster", "The Puzzle", "The Labyrinth">>,
                requires_permission |-> FALSE]
          [] g = "dual_witness" ->
               [name |-> "Dual Witness Glyph",
                meanings |-> <<"witnessing", "mirroring", "trauma", "grief",
                               "duality", "entanglement">>,
                archetypes |-> <<"The Twins", "The Mirror", "The Echo">>,
                requires_permission |-> FALSE]
          [] g = "recursion" ->
               [name |-> "Recursion Glyph",
                meanings |-> <<"loops", "recursion", "patterns", "iteration",
                               "self-reference">>,
                archetypes |-> <<"The Ouroboros", "The Fractal", "The Algorithm">>,
                requires_permission |-> FALSE]
          [] g = "eternal" ->
               [name |-> "Eternal Glyph",
                meanings |-> <<"memory", "eternity", "cycles", "immortality",
                               "permanence">>,
                archetypes |-> <<"The Ancient", "The Monument", "The Timeless">>,
                requires_permission |-> FALSE]
          [] g = "breath" ->
               [name |-> "Breath Glyph",
                meanings |-> <<"breath", "spirit", "transformation", "air",
                               "alchemy">>,
                archetypes |-> <<"The Wind", "The Phoenix", "The Alchemist">>,
                requires_permission |-> FALSE]
          [] g = "temporal_fold" ->
               [name |-> "Temporal Fold",
                meanings |-> <<"time dilation", "deja vu", "temporal distortion">>,
                archetypes |-> <<"The Timekeeper", "The Prophet">>,
                requires_permission |-> TRUE]
          [] g = "threshold_marker" ->
               [name |-> "Threshold Marker",
                meanings |-> <<"initiation", "portals", "boundary crossing">>,
                archetypes |-> <<"The Gatekeeper", "The Wanderer">>,
                requires_permission |-> TRUE]]

Symbols == DOMAIN GLYPH_LEXICON

---------------------------------------------------------------------------
(* Strings.                                                                *)

\* str.strip(): the string without its leading and trailing blanks.
RECURSIVE LStrip(_)
LStrip(s) ==
    IF s # <<>> /\ Head(s) = " " THEN LStrip(Tail(s)) ELSE s

RECURSIVE RStrip(_)
RStrip(s) ==
    IF s # <<>> /\ s[Len(s)] = " " THEN RStrip(SubSeq(s, 1, Len(s) - 1)) ELSE s

Strip(s) == RStrip(LStrip(s))

\* "g.strip() in GLYPH_LEXICON": the string is a key of the table, that is,
\* exactly one character, and that character a glyph of the table.
InLexicon(s) == Len(s) = 1 /\ s[1] \in Symbols

\* seq[-n:] in place of seq[:n]
Suffix(seq, n) ==
    SubSeq(seq, IF Len(seq) < n THEN 1 ELSE Len(seq) - n + 1, Len(seq))

\* seq[:n]
Prefix(seq, n) == SubSeq(seq, 1, IF Len(seq) < n THEN Len(seq) ELSE n)

---------------------------------------------------------------------------
(* validate_glyphstream, autoglyph.py lines 155-167.                       *)

\* line 157: [g.strip() for g in glyphs if g.strip() in GLYPH_LEXICON],
\* each kept string given as its symbol.
\* line 157 without its "if": every string that is not blank is kept
RECURSIVE valid_glyphs_unfiltered(_)
valid_glyphs_unfiltered(glyphs) ==
    IF glyphs = <<>> THEN <<>>
    ELSE IF Strip(Head(glyphs)) # <<>>
         THEN <<Strip(Head(glyphs))[1]>> \o valid_glyphs_unfiltered(Tail(glyphs))
         ELSE valid_glyphs_unfiltered(Tail(glyphs))

\* line 157 testing only the first character of the string against the table
RECURSIVE valid_glyphs_first_char(_)
valid_glyphs_first_char(glyphs) ==
    IF glyphs = <<>> THEN <<>>
    ELSE IF Strip(Head(glyphs)) # <<>> /\ Strip(Head(glyphs))[1] \in Symbols
         THEN <<Strip(Head(glyphs))[1]>> \o valid_glyphs_first_char(Tail(glyphs))
         ELSE valid_glyphs_first_char(Tail(glyphs))

RECURSIVE valid_glyphs(_)
valid_glyphs(glyphs) ==
    IF glyphs = <<>> THEN <<>>
    ELSE IF InLexicon(Strip(Head(glyphs)))
         THEN <<Strip(Head(glyphs))[1]>> \o valid_glyphs(Tail(glyphs))
         ELSE valid_glyphs(Tail(glyphs))

\* line 161
permission_glyphs == {g \in Symbols : GLYPH_LEXICON[g].requires_permission}

\* line 162 with all() in place of any()
all_permission(valid) == \A i \in 1..Len(valid) : valid[i] \in permission_glyphs

\* line 162: any(g in permission_glyphs for g in valid_glyphs)
any_permission(valid) == \E i \in 1..Len(valid) : valid[i] \in permission_glyphs

\* line 166 with the two limits exchanged
max_glyphs_swapped(personal) == IF personal THEN 7 ELSE 3

\* line 166
max_glyphs(personal) == IF personal THEN 3 ELSE 7

validate_glyphstream(glyphs, personal) ==
    LET valid == valid_glyphs(glyphs) IN
    IF ~personal /\ ~any_permission(valid)
    THEN <<>>
    ELSE Prefix(valid, max_glyphs(personal))

---------------------------------------------------------------------------
(* Notes and their metadata.  A metadata mapping is a Python dict: a       *)
(* sequence of [key, val] entries in insertion order, no key twice.  A     *)
(* value carries its YAML type: [t |-> "str", v], [t |-> "list", v],       *)
(* [t |-> "map", v] or [t |-> "null"].                                     *)

StrVal(s) == [t |-> "str", v |-> s]
ListVal(seq) == [t |-> "list", v |-> seq]
MapVal(f) == [t |-> "map", v |-> f]
NullVal == [t |-> "null", v |-> <<>>]

\* key in metadata
HasKey(meta, key) == \E i \in 1..Len(meta) : meta[i].key = key

\* metadata.get(key, default)
Get(meta, key, default) ==
    IF HasKey(meta, key)
    THEN meta[CHOOSE i \in 1..Len(meta) : meta[i].key = key].val
    ELSE default

\* metadata[key] = val: a key already there keeps its place, a new key goes last
SetKey(meta, key, val) ==
    IF HasKey(meta, key)
    THEN [i \in 1..Len(meta) |->
            IF meta[i].key = key THEN [key |-> key, val |-> val] ELSE meta[i]]
    ELSE Append(meta, [key |-> key, val |-> val])

\* A file of the vault.  fmt "user": as its author wrote it; "auto": as
\* write_obsidian_file writes it; "partial": what an interrupted write left;
\* "malformed": a header frontmatter.load cannot parse.  body is the length of
\* the text after the header.
File(fmt, meta, body) == [fmt |-> fmt, meta |-> meta, body |-> body]

NumNotes == 2     \* the notes VAULT_PATH.rglob("*.md") yields, in its order
MaxRuns == 2      \* runs of process_vault

NoteIds == 1..NumNotes

Entry(key, val) == [key |-> key, val |-> val]

\* files whose note the model is asked about
LongFiles ==
    { File("user", <<Entry("stream_type", StrVal("draft")),
                     Entry("title", StrVal("a")),
                     Entry("links", MapVal([home |-> "index"]))>>, 120),
      File("user", <<Entry("tags", ListVal(<<"journal", "shared_experience">>)),
                     Entry("title", StrVal("b"))>>, 50) }
\* files whose note it is not asked about
OtherFiles ==
    { File("user", <<>>, 49),
      File("user", <<Entry("glyphstream", ListVal(<<"eternal">>)),
                     Entry("title", StrVal("c"))>>, 120),
      File("user", <<Entry("tags", NullVal)>>, 120),
      File("user", <<Entry("tags", NullVal), Entry("title", StrVal("d"))>>, 49),
      File("user", <<Entry("tags", StrVal(<<"un", "shared_experience", "d">>))>>,
           49),
      File("malformed", <<>>, 0) }

NoPost == [metadata |-> <<>>, content |-> 0]

\* frontmatter.load(md_file), line 210: the header and the text of a file that
\* parses.
FileParses(file) == file.fmt # "malformed"
LoadPost(file) == [metadata |-> file.meta, content |-> file.body]

---------------------------------------------------------------------------
(* log_assignment, autoglyph.py lines 86-97.  The entry's timestamp and    *)
(* run_id are the time of the call; the model keeps of them the run in     *)
(* progress.                                                               *)

LogEntry(file, glyphs, action, error) ==
    [file |-> file, action |-> action, glyphs |-> glyphs, run_id |-> run,
     error |-> error]

\* open(LOG_FILE, "a") and write: with no fault the entry is the new last
\* line; with a fault the call raises and the file is as before.  A fault
\* "once" is gone after one failed call, a fault "stuck" stays.
LogRaises(fault) == fault # "none"
LogAfter(lines, fault, entry) == IF LogRaises(fault) THEN lines ELSE Append(lines, entry)
FaultAfter(fault) == IF fault = "once" THEN "none" ELSE fault

---------------------------------------------------------------------------
(* llm_assign_glyphs, autoglyph.py lines 169-191.                          *)

ShortNote == 50   \* line 171

\* str.split(","), line 188: the pieces between the commas, at least one.
RECURSIVE Split(_)
Split(s) ==
    IF \E i \in 1..Len(s) : s[i] = ","
    THEN LET i == CHOOSE k \in 1..Len(s) :
                     s[k] = "," /\ \A j \in 1..(k - 1) : s[j] # ","
         IN <<SubSeq(s, 1, i - 1)>> \o Split(SubSeq(s, i + 1, Len(s)))
    ELSE <<s>>

\* What llm.create_chat_completion may do: raise (or return a response
\* without the expected fields), or return a text.  The text it returns for
\* a note is drawn with the vault and is one of these.
ModelTexts ==
    { <<" ", "paradox", " ", ",", " ", "temporal_fold", " ">>,
      <<"paradox", ",", ",", "x", ",", "recursion">> }
ModelOutcomes == {[raises |-> r] : r \in BOOLEAN}

\* lines 171-172
TooShort(content) == content < ShortNote

\* lines 187-188, on the text of a response
AssignFromText(text, personal) ==
    validate_glyphstream(Split(Strip(text)), personal)

\* llm_assign_glyphs with the failed call answered by a second call
llm_assign_glyphs_retried(outcome, text, content, personal) ==
    IF TooShort(content) THEN <<>>
    ELSE AssignFromText(text, personal)

\* the value llm_assign_glyphs returns, given what the model call did
llm_assign_glyphs(outcome, text, content, personal) ==
    IF TooShort(content) THEN <<>>
    ELSE IF outcome.raises THEN <<>>
    ELSE AssignFromText(text, personal)

---------------------------------------------------------------------------
(* write_obsidian_file, autoglyph.py lines 99-130.                         *)

\* lines 106-112: a str, number, bool or list is kept; any other value goes
\* through yaml.safe_dump and yaml.safe_load, which rebuild a mapping key by key.
SafeValue(val) ==
    IF val.t = "map"
    THEN MapVal([k \in DOMAIN val.v |-> val.v[k]])
    ELSE val
safe_metadata(metadata) ==
    [i \in 1..Len(metadata) |-> Entry(metadata[i].key, SafeValue(metadata[i].val))]

\* What a call may do: "ok", lines 115-127; "open_error", the exception is
\* raised by line 115 or before it and the file is as it was; the exception
\* is raised after open(file_path, 'w') has emptied the file, and the file
\* keeps what had been written by then: nothing, "header_error", or the
\* header without the text, "body_error".
WriteOutcomes == {"ok", "open_error", "header_error", "body_error"}

\* a writer that leaves the header out
WrittenFile_without_header(metadata, content) == File("auto", <<>>, content)

\* lines 115-127: the header from safe_metadata, then the text
WrittenFile(metadata, content) == File("auto", safe_metadata(metadata), content)

\* the file after the call
FileAfterWrite(file, outcome, metadata, content) ==
    CASE outcome = "ok" -> WrittenFile(metadata, content)
      [] outcome = "open_error" -> file
      [] outcome = "header_error" -> File("partial", <<>>, 0)
      [] outcome = "body_error" -> File("partial", safe_metadata(metadata), 0)

\* the value write_obsidian_file returns, lines 127 and 130
WriteReturns(outcome) == outcome = "ok"

---------------------------------------------------------------------------
(* process_vault, autoglyph.py lines 196-264.                              *)

\* a note of the vault at the start: its file, and the text the model
\* returns when it is asked about the note
VaultNotes ==
    {[file |-> f, text |-> t] : f \in LongFiles, t \in ModelTexts}
    \cup {[file |-> f, text |-> <<>>] : f \in OtherFiles}

ZeroCounts == [n \in NoteIds |-> 0]
NotLoaded == [n \in NoteIds |-> <<>>]

\* line 213 testing another of the keys the program writes
AlreadyProcessed_stream_type(metadata) == HasKey(metadata, "stream_type")

\* line 213
AlreadyProcessed(metadata) == HasKey(metadata, "glyphstream")

\* line 220: "shared_experience" not in tags.  For a list the test is for an
\* element; for a str it is for a substring, and the str is written as the
\* sequence of its pieces, "shared_experience" being one piece where the str
\* holds these characters.
IsPersonal(metadata) ==
    LET tags == Get(metadata, "tags", ListVal(<<>>)) IN
    ~(\E i \in 1..Len(tags.v) : tags.v[i] = "shared_experience")

\* "shared_experience" not in tags raises TypeError when tags is None
TagsRaise(metadata) == Get(metadata, "tags", ListVal(<<>>)).t = "null"

\* lines 225-232
glyph_metadata(stream) ==
    [g \in {stream[i] : i \in 1..Len(stream)} |-> GLYPH_LEXICON[g]]

\* an assignment of the four keys in the place of metadata.update
UpdatedMetadata_replaced(metadata, stream, personal, now) ==
    <<Entry("glyphstream", ListVal(stream)),
      Entry("glyph_metadata", MapVal(glyph_metadata(stream))),
      Entry("last_processed", [t |-> "time", v |-> now]),
      Entry("stream_type", StrVal(IF personal THEN "personal" ELSE "shared"))>>

\* lines 235-240
UpdatedMetadata(metadata, stream, personal, now) ==
    SetKey(SetKey(SetKey(SetKey(metadata,
        "glyphstream", ListVal(stream)),
        "glyph_metadata", MapVal(glyph_metadata(stream))),
        "last_processed", [t |-> "time", v |-> now]),
        "stream_type", StrVal(IF personal THEN "personal" ELSE "shared"))

Init ==
    /\ v_glyphs = <<>>
    /\ v_is_personal = TRUE
    /\ v_result = <<>>
    /\ v_done = FALSE
    /\ \E vault \in [NoteIds -> VaultNotes] :
         /\ disk = [n \in NoteIds |-> vault[n].file]
         /\ model_text = [n \in NoteIds |-> vault[n].text]
    /\ log_exists = FALSE
    /\ log = <<>>
    /\ log_fault = "none"
    /\ pc = "idle"
    /\ run = 0
    /\ idx = 0
    /\ post = NoPost
    /\ is_personal = TRUE
    /\ glyphstream = <<>>
    /\ processed_files = 0
    /\ loaded = NotLoaded
    /\ model_calls = ZeroCounts
    /\ writes = NotLoaded
    /\ log_before = <<>>
    /\ sleeps = ZeroCounts
    /\ assigned = NotLoaded
    /\ model_failures = ZeroCounts
    /\ disk_before = disk

\* the for loop takes the next file, or ends
NextPc(i) == IF i > NumNotes THEN "report" ELSE "load"

\* lines 199-205: the run starts; the log file is created if it is absent
StartRun ==
    /\ pc = "idle"
    /\ run < MaxRuns
    /\ run' = run + 1
    /\ log_exists' = TRUE
    /\ processed_files' = 0
    /\ idx' = 1
    /\ pc' = NextPc(1)
    /\ loaded' = NotLoaded
    /\ model_calls' = ZeroCounts
    /\ writes' = NotLoaded
    /\ log_before' = log
    /\ sleeps' = ZeroCounts
    /\ assigned' = NotLoaded
    /\ model_failures' = ZeroCounts
    /\ disk_before' = disk
    /\ UNCHANGED <<vvars, disk, model_text, log, log_fault, post, is_personal, glyphstream>>

\* One call of log_assignment in the try block, lines 208-252, and what
\* follows it.  When the call raises, the except block, lines 254-257, calls
\* log_assignment again, with action ERROR; when that call raises too, the
\* exception leaves process_vault.
Logged(entry, nextPc, nextIdx) ==
    IF ~LogRaises(log_fault)
    THEN /\ log' = LogAfter(log, log_fault, entry)
         /\ log_fault' = log_fault
         /\ pc' = nextPc
         /\ idx' = nextIdx
    ELSE LET fault2 == FaultAfter(log_fault)
             err == LogEntry(entry.file, <<>>, "ERROR", "OSError")
         IN /\ log' = LogAfter(log, fault2, err)
            /\ log_fault' = FaultAfter(fault2)
            /\ pc' = IF LogRaises(fault2) THEN "crashed" ELSE NextPc(idx + 1)
            /\ idx' = IF LogRaises(fault2) THEN idx ELSE idx + 1

\* a loop without the except block: the exception leaves process_vault
Except_propagates(error) ==
    /\ log' = log
    /\ log_fault' = log_fault
    /\ pc' = "crashed"
    /\ idx' = idx

\* the except block, lines 254-257, after an exception that is not from
\* log_assignment
Except(error) ==
    /\ log' = LogAfter(log, log_fault, LogEntry(idx, <<>>, "ERROR", error))
    /\ log_fault' = FaultAfter(log_fault)
    /\ pc' = IF LogRaises(log_fault) THEN "crashed" ELSE NextPc(idx + 1)
    /\ idx' = IF LogRaises(log_fault) THEN idx ELSE idx + 1

\* lines 207-220: load the note; skip it if it has a glyphstream; else
\* find its stream type
Load ==
    /\ pc = "load"
    /\ loaded' = [loaded EXCEPT ![idx] = <<disk[idx]>>]
    /\ IF ~FileParses(disk[idx])
       THEN /\ Except("ParseError")
            /\ UNCHANGED <<post, is_personal>>
       ELSE LET p == LoadPost(disk[idx]) IN
            IF AlreadyProcessed(p.metadata)
            THEN /\ Logged(LogEntry(idx, <<>>, "SKIPPED", ""),
                           NextPc(idx + 1), idx + 1)
                 /\ UNCHANGED <<post, is_personal>>
            ELSE IF TagsRaise(p.metadata)
            THEN /\ Except("TypeError")
                 /\ UNCHANGED <<post, is_personal>>
            ELSE /\ post' = p
                 /\ is_personal' = IsPersonal(p.metadata)
                 /\ pc' = "assign"
                 /\ UNCHANGED <<log, log_fault, idx>>
    /\ UNCHANGED <<vvars, disk, model_text, log_exists, run, glyphstream,
                   processed_files, model_calls, writes, log_before, sleeps,
                   assigned, model_failures, disk_before>>

\* the test for None in the place of the test of line 223
Truthy_not_none(stream) == TRUE

\* line 223, if glyphstream: a list is true when it is not empty
Truthy(stream) == stream # <<>>

\* lines 221-223 and 249-250: llm_assign_glyphs; an empty result is logged
\* NO_MATCH, another one is merged into the metadata, lines 225-240
Assign ==
    /\ pc = "assign"
    /\ \E outcome \in ModelOutcomes :
         LET stream == llm_assign_glyphs(outcome, model_text[idx], post.content,
                                         is_personal)
         IN /\ model_calls' = [model_calls EXCEPT
                 ![idx] = IF TooShort(post.content) THEN @ ELSE @ + 1]
            /\ model_failures' = [model_failures EXCEPT
                 ![idx] = IF ~TooShort(post.content) /\ outcome.raises
                          THEN @ + 1 ELSE @]
            /\ glyphstream' = stream
            /\ assigned' = [assigned EXCEPT ![idx] = Append(@, stream)]
            /\ IF Truthy(stream)
               THEN /\ post' = [post EXCEPT !.metadata =
                                  UpdatedMetadata(@, stream, is_personal, run)]
                    /\ pc' = "write"
                    /\ UNCHANGED <<log, log_fault, idx>>
               ELSE /\ Logged(LogEntry(idx, <<>>, "NO_MATCH", ""), "sleep", idx)
                    /\ UNCHANGED post
    /\ UNCHANGED <<vvars, disk, model_text, log_exists, run, is_personal,
                   processed_files, loaded, writes, log_before, sleeps,
                   disk_before>>

\* lines 243-248: write the file back and log what came of it
Write ==
    /\ pc = "write"
    /\ \E outcome \in WriteOutcomes :
         /\ disk' = [disk EXCEPT ![idx] =
                       FileAfterWrite(@, outcome, post.metadata, post.content)]
         /\ Logged(LogEntry(idx, glyphstream,
                            IF WriteReturns(outcome)
                            THEN "UPDATED" ELSE "WRITE_FAILED",
                            ""),
                   "sleep", idx)
         /\ processed_files' =
              IF WriteReturns(outcome) /\ ~LogRaises(log_fault)
              THEN processed_files + 1 ELSE processed_files
         /\ writes' = [writes EXCEPT ![idx] = Append(@, WriteReturns(outcome))]
    /\ UNCHANGED <<vvars, model_text, log_exists, run, post, is_personal,
                   glyphstream, loaded, model_calls, log_before, sleeps,
                   assigned, model_failures, disk_before>>

\* the loop without line 252: the next file at once
Sleep_omitted ==
    /\ pc = "sleep"
    /\ idx' = idx + 1
    /\ pc' = NextPc(idx + 1)
    /\ UNCHANGED <<vvars, disk, model_text, log_exists, log, log_fault, run, post,
                   is_personal, glyphstream, processed_files, loaded,
                   model_calls, writes, log_before, sleeps, assigned,
                   model_failures, disk_before>>

\* line 252, then the next file
Sleep ==
    /\ pc = "sleep"
    /\ sleeps' = [sleeps EXCEPT ![idx] = @ + 1]
    /\ idx' = idx + 1
    /\ pc' = NextPc(idx + 1)
    /\ UNCHANGED <<vvars, disk, model_text, log_exists, log, log_fault, run, post,
                   is_personal, glyphstream, processed_files, loaded,
                   model_calls, writes, log_before, assigned, model_failures,
                   disk_before>>

\* lines 259-264: the final report; process_vault returns
Report ==
    /\ pc = "report"
    /\ pc' = "idle"
    /\ UNCHANGED <<vvars, disk, model_text, log_exists, log, log_fault, run, idx, post,
                   is_personal, glyphstream, processed_files, loaded,
                   model_calls, writes, log_before, sleeps, assigned,
                   model_failures, disk_before>>

Next == StartRun \/ Load \/ Assign \/ Write \/ Sleep \/ Report

Spec == Init /\ [][Next]_vars

\* The environment: appending to LOG_FILE starts to fail, for one call or
\* for all calls to come.
LogFault ==
    /\ log_fault = "none"
    /\ pc \in {"load", "assign", "write"}
    /\ log_fault' \in {"once", "stuck"}
    /\ UNCHANGED <<vvars, disk, model_text, log_exists, log, pc, run, idx, post, is_personal,
                   glyphstream, processed_files, loaded, model_calls,
                   writes, log_before, sleeps, assigned, model_failures,
                   disk_before>>

NextLogFault == Next \/ LogFault

SpecLogFault == Init /\ [][NextLogFault]_vars

---------------------------------------------------------------------------
(* The validator on its own: the inputs are drawn by InitValidate, the    *)
(* one action is the call.                                                 *)

MaxLenAny == 3        \* token lists over every sample token
MaxLenRepeat == 8     \* token lists over three tokens, repeats included
MaxLenDistinct == 5   \* lists of pairwise distinct symbols

SeqsUpTo(S, n) == UNION {[1..k -> S] : k \in 0..n}

\* Sample tokens: every symbol bare; symbols with blanks around them;
\* strings that are no key of the table.
BareTokens == {<<g>> : g \in Symbols}
PaddedTokens == {<<" ", "paradox">>, <<"temporal_fold", " ">>,
                 <<" ", "threshold_marker", " ", " ">>}
UnknownTokens == {<<>>, <<" ">>, <<"x">>, <<"paradox", "recursion">>,
                  <<"eternal", " ", "breath">>, <<"x", "temporal_fold">>}
SampleTokens == BareTokens \cup PaddedTokens \cup UnknownTokens
RepeatTokens == {<<"paradox">>, <<" ", "temporal_fold">>, <<"x">>}

Distinct(seq) == \A i, j \in 1..Len(seq) : i # j => seq[i] # seq[j]

TokenLists ==
    SeqsUpTo(SampleTokens, MaxLenAny)
    \cup SeqsUpTo(RepeatTokens, MaxLenRepeat)
    \cup {s \in SeqsUpTo(BareTokens, MaxLenDistinct) : Distinct(s)}

InitValidate ==
    /\ v_glyphs \in TokenLists
    /\ v_is_personal \in BOOLEAN
    /\ v_result = <<>>
    /\ v_done = FALSE
    /\ disk = [n \in NoteIds |-> File("user", <<>>, 0)]
    /\ model_text = [n \in NoteIds |-> <<>>]
    /\ log_exists = FALSE
    /\ log = <<>>
    /\ log_fault = "none"
    /\ pc = "idle"
    /\ run = 0
    /\ idx = 0
    /\ post = NoPost
    /\ is_personal = TRUE
    /\ glyphstream = <<>>
    /\ processed_files = 0
    /\ loaded = NotLoaded
    /\ model_calls = ZeroCounts
    /\ writes = NotLoaded
    /\ log_before = <<>>
    /\ sleeps = ZeroCounts
    /\ assigned = NotLoaded
    /\ model_failures = ZeroCounts
    /\ disk_before = disk

CallValidate ==
    /\ ~v_done
    /\ v_result' = validate_glyphstream(v_glyphs, v_is_personal)
    /\ v_done' = TRUE
    /\ UNCHANGED <<v_glyphs, v_is_personal, pvars>>

NextValidate == CallValidate

SpecValidate == InitValidate /\ [][NextValidate]_vars

---------------------------------------------------------------------------
(* The properties.  Those of validate_glyphstream are stated of a call     *)
(* that has returned (v_done), under SpecValidate.                         *)

Min(a, b) == IF a < b THEN a ELSE b

\* how often x occurs in seq
Count(seq, x) == Cardinality({i \in 1..Len(seq) : seq[i] = x})

\* the trimmed tokens that are symbols of the Lexicon, in input order
Surviving(tokens) ==
    LET trimmed == [i \in 1..Len(tokens) |-> Strip(tokens[i])]
        kept == SelectSeq(trimmed, InLexicon)
    IN [i \in 1..Len(kept) |-> kept[i][1]]

HasGated(seq) == \E i \in 1..Len(seq) : GLYPH_LEXICON[seq[i]].requires_permission

\* the entries the run in progress (or the last run) appended for note n
RunEntries(n) ==
    LET IsOfNote(e) == e.file = n
    IN SelectSeq(SubSeq(log, Len(log_before) + 1, Len(log)), IsOfNote)

\* the run has read note n and is through with it
Through(n) ==
    /\ loaded[n] # <<>>
    /\ ~(idx = n /\ pc \in {"assign", "write"})

\* the run has ended with the final report
RunComplete == run > 0 /\ pc = "idle"

\* C1: the stream validate_glyphstream returns for a Shared note is empty
\* or holds at least one permission-gated glyph.
C1_SharedStreamHasGatedGlyph ==
    (v_done /\ ~v_is_personal) => (v_result = <<>> \/ HasGated(v_result))

\* C2: when write_obsidian_file fails for a note, the log gets exactly one
\* entry for the note in the run, WRITE_FAILED with the attempted glyphs;
\* the note's file is as it was before the attempt; and the run goes on to
\* process every later note.
C2_WriteFailureIsolated ==
    \A n \in NoteIds :
        (writes[n] # <<>> /\ ~writes[n][1]) =>
            /\ Len(RunEntries(n)) = 1
            /\ RunEntries(n)[1].action = "WRITE_FAILED"
            /\ RunEntries(n)[1].glyphs # <<>>
            /\ (idx = n => RunEntries(n)[1].glyphs = glyphstream)
            /\ disk[n] = loaded[n][1]
            /\ pc # "crashed"
            /\ (RunComplete => \A m \in NoteIds : Through(m) /\ RunEntries(m) # <<>>)

\* C3: a note that has the key glyphstream when the run reads it gets no
\* model call and no write in the run, its file stays as read, and its one
\* log entry of the run is SKIPPED with no glyphs.
C3_ProcessedNoteIsSkipped ==
    \A n \in NoteIds :
        (/\ loaded[n] # <<>>
         /\ FileParses(loaded[n][1])
         /\ HasKey(loaded[n][1].meta, "glyphstream")) =>
            /\ model_calls[n] = 0
            /\ writes[n] = <<>>
            /\ disk[n] = loaded[n][1]
            /\ Len(RunEntries(n)) = 1
            /\ RunEntries(n)[1].action = "SKIPPED"
            /\ RunEntries(n)[1].glyphs = <<>>

\* a second run has skipped a note that the first run wrote
C3_Witness ==
    /\ RunComplete
    /\ \E n \in NoteIds :
         /\ loaded[n] # <<>>
         /\ loaded[n][1].fmt = "auto"
         /\ HasKey(loaded[n][1].meta, "glyphstream")
         /\ RunEntries(n) # <<>>

\* C4: the stream validate_glyphstream returns has at most 3 glyphs for a
\* Personal note and at most 7 for a Shared note.
C4_LengthBounded ==
    v_done => Len(v_result) <= (IF v_is_personal THEN 3 ELSE 7)

\* a Shared stream cut to 7, a case of C4
C4_Witness ==
    /\ v_done
    /\ ~v_is_personal
    /\ Len(Surviving(v_glyphs)) > 7
    /\ Len(v_result) = 7

\* C5: every symbol of the stream validate_glyphstream returns is a key of
\* the Lexicon.
C5_SymbolsInLexicon ==
    v_done => \A i \in 1..Len(v_result) : v_result[i] \in DOMAIN GLYPH_LEXICON

\* a stream was returned for tokens of which some are no key of the Lexicon
C5_Witness ==
    /\ v_done
    /\ v_result # <<>>
    /\ \E i \in 1..Len(v_glyphs) : ~InLexicon(Strip(v_glyphs[i]))

\* C6, as stated: no symbol occurs twice in the stream validate_glyphstream
\* returns.
C6_StreamDistinct ==
    v_done => \A i, j \in 1..Len(v_result) : i # j => v_result[i] # v_result[j]

\* C6, amended: a symbol occurs in the stream validate_glyphstream returns
\* at most as often as it occurs among the trimmed input tokens.
C6_NoMoreThanInInput ==
    v_done =>
        \A g \in Symbols :
            Count(v_result, g)
                <= Cardinality({i \in 1..Len(v_glyphs) : Strip(v_glyphs[i]) = <<g>>})

\* a stream that repeats a symbol
C6_Witness ==
    /\ v_done
    /\ \E i, j \in 1..Len(v_result) : i # j /\ v_result[i] = v_result[j]

\* C7: the stream validate_glyphstream returns for a Personal note holds no
\* permission-gated glyph.
C7_PersonalStreamHasNoGatedGlyph ==
    (v_done /\ v_is_personal) => ~HasGated(v_result)

\* C8: for a Shared note, validate_glyphstream returns the empty stream when
\* no surviving token is permission-gated, and else the surviving tokens cut
\* to 7.
C8_SharedGate ==
    (v_done /\ ~v_is_personal) =>
        LET kept == Surviving(v_glyphs) IN
        IF \A i \in 1..Len(kept) : ~GLYPH_LEXICON[kept[i]].requires_permission
        THEN v_result = <<>>
        ELSE v_result = SubSeq(kept, 1, Min(7, Len(kept)))

\* surviving tokens, none of them gated, were rejected as a whole
C8_Witness ==
    /\ v_done
    /\ ~v_is_personal
    /\ Len(Surviving(v_glyphs)) >= 2
    /\ ~HasGated(Surviving(v_glyphs))
    /\ v_result = <<>>

\* C9: for a Personal note, validate_glyphstream returns the first min(3, n)
\* of the n surviving tokens, in input order.
C9_PersonalPrefix ==
    (v_done /\ v_is_personal) =>
        LET kept == Surviving(v_glyphs) IN
        v_result = SubSeq(kept, 1, Min(3, Len(kept)))

\* five distinct symbols gave the first three of them
C9_Witness ==
    /\ v_done
    /\ v_is_personal
    /\ Len(v_glyphs) = 5
    /\ \A i \in 1..5 : InLexicon(v_glyphs[i])
    /\ \A i, j \in 1..5 : i # j => v_glyphs[i] # v_glyphs[j]
    /\ v_result = <<v_glyphs[1][1], v_glyphs[2][1], v_glyphs[3][1]>>

\* C10: the lines the log had when the run started are still its first
\* lines, and for each note the run is through with, the run appended
\* exactly one entry, whose action is one of the five.
C10_OneEntryPerNote ==
    /\ Len(log) >= Len(log_before)
    /\ SubSeq(log, 1, Len(log_before)) = log_before
    /\ \A n \in NoteIds :
         Through(n) =>
            /\ Len(RunEntries(n)) = 1
            /\ RunEntries(n)[1].action \in
                 {"SKIPPED", "UPDATED", "WRITE_FAILED", "NO_MATCH", "ERROR"}

\* the run has read note n, the file parsed, and it has no key glyphstream
Unprocessed(n) ==
    /\ loaded[n] # <<>>
    /\ FileParses(loaded[n][1])
    /\ ~HasKey(loaded[n][1].meta, "glyphstream")

\* C11: for a note without the key glyphstream whose body has fewer than 50
\* characters, llm_assign_glyphs makes no model call and returns the empty
\* stream, and the one log entry of the note in the run is NO_MATCH.
C11_ShortNoteIsNoMatch ==
    \A n \in NoteIds :
        (Unprocessed(n) /\ loaded[n][1].body < 50) =>
            /\ model_calls[n] = 0
            /\ \A i \in 1..Len(assigned[n]) : assigned[n][i] = <<>>
            /\ Through(n) =>
                  /\ Len(RunEntries(n)) = 1
                  /\ RunEntries(n)[1].action = "NO_MATCH"

\* C12: a model call that fails is turned into the empty stream and is
\* neither retried nor propagated: a note gets at most one model call in a
\* run, and a note whose model call failed has the empty stream assigned,
\* no write, its file as read, and NO_MATCH as its one log entry of the run.
C12_ModelFailureIsNoMatch ==
    \A n \in NoteIds :
        /\ model_calls[n] <= 1
        /\ model_failures[n] > 0 =>
             /\ assigned[n] = << <<>> >>
             /\ writes[n] = <<>>
             /\ disk[n] = loaded[n][1]
             /\ pc # "crashed"
             /\ Through(n) =>
                  /\ Len(RunEntries(n)) = 1
                  /\ RunEntries(n)[1].action = "NO_MATCH"
                  /\ RunEntries(n)[1].error = ""

\* the run has ended, and a note whose model call failed in it is logged
\* NO_MATCH
C12_Witness ==
    /\ RunComplete
    /\ \E n \in NoteIds :
         /\ model_failures[n] = 1
         /\ model_calls[n] = 1
         /\ RunEntries(n)[1].action = "NO_MATCH"

\* C13: an exception raised while a note is read or parsed ends the work on
\* that note only: the note gets no model call and no write, its file stays
\* as it was, its one log entry of the run is ERROR with the type and the
\* message of the exception, and the run goes on with the next note.
C13_ReadFailureIsolated ==
    \A n \in NoteIds :
        (loaded[n] # <<>> /\ ~FileParses(loaded[n][1])) =>
            /\ model_calls[n] = 0
            /\ assigned[n] = <<>>
            /\ writes[n] = <<>>
            /\ disk[n] = loaded[n][1]
            /\ Len(RunEntries(n)) = 1
            /\ RunEntries(n)[1].action = "ERROR"
            /\ RunEntries(n)[1].error = "ParseError"
            /\ RunEntries(n)[1].glyphs = <<>>
            /\ pc # "crashed"
            /\ idx > n
            /\ RunComplete =>
                 \A m \in NoteIds :
                     m > n => loaded[m] # <<>> /\ Len(RunEntries(m)) = 1

\* the first note did not parse, and the run has processed the second and
\* ended
C13_Witness ==
    /\ RunComplete
    /\ ~FileParses(loaded[1][1])
    /\ RunEntries(1)[1].action = "ERROR"
    /\ loaded[2] # <<>>
    /\ RunEntries(2) # <<>>

\* C14: no failure of a read, a model call, a write or a log append makes
\* the exception leave process_vault, and a run that has reached its final
\* report has brought every note to a terminal state, with a log entry.
C14_RunNeverAborts ==
    /\ pc # "crashed"
    /\ RunComplete => \A n \in NoteIds : Through(n) /\ RunEntries(n) # <<>>

\* C15: when llm_assign_glyphs returns the empty stream for a note, no write
\* is attempted, the file of the note stays as read, and the one log entry
\* of the note in the run is NO_MATCH with no glyphs.
C15_EmptyStreamIsNoMatch ==
    \A n \in NoteIds :
        (assigned[n] # <<>> /\ assigned[n][1] = <<>>) =>
            /\ Len(assigned[n]) = 1
            /\ writes[n] = <<>>
            /\ disk[n] = loaded[n][1]
            /\ Through(n)
            /\ Len(RunEntries(n)) = 1
            /\ RunEntries(n)[1].action = "NO_MATCH"
            /\ RunEntries(n)[1].glyphs = <<>>

\* a model call that did not fail gave a text of which validate_glyphstream
\* kept nothing, and the note is logged NO_MATCH
C15_Witness ==
    \E n \in NoteIds :
        /\ model_calls[n] = 1
        /\ model_failures[n] = 0
        /\ assigned[n] = << <<>> >>
        /\ RunEntries(n) # <<>>
        /\ RunEntries(n)[1].action = "NO_MATCH"

\* C16, as stated: when the run has left a note behind, whatever its
\* terminal state, it has made the pause of line 252 for it.
C16_PauseAfterEveryNote ==
    \A n \in NoteIds :
        (loaded[n] # <<>> /\ idx > n) => sleeps[n] = 1

\* C16, amended: when the run has left a note behind, it has made one pause
\* for it if the note was logged UPDATED, WRITE_FAILED or NO_MATCH, and none
\* if it was logged SKIPPED or ERROR.
C16_PauseAfterAssignedNote ==
    \A n \in NoteIds :
        (loaded[n] # <<>> /\ idx > n) =>
            /\ Len(RunEntries(n)) = 1
            /\ sleeps[n] =
                 IF RunEntries(n)[1].action \in {"UPDATED", "WRITE_FAILED", "NO_MATCH"}
                 THEN 1 ELSE 0

\* the run has left behind a note with a pause and a note without one
C16_Witness ==
    \E n, m \in NoteIds :
        /\ idx > n
        /\ idx > m
        /\ loaded[n] # <<>>
        /\ loaded[m] # <<>>
        /\ RunEntries(n)[1].action = "UPDATED"
        /\ sleeps[n] = 1
        /\ RunEntries(m)[1].action \in {"SKIPPED", "ERROR"}
        /\ sleeps[m] = 0

\* the run before the one in progress logged note n UPDATED
UpdatedInRunBefore(n) ==
    \E i \in 1..Len(log_before) :
        /\ log_before[i].file = n
        /\ log_before[i].run_id = run - 1
        /\ log_before[i].action = "UPDATED"

\* C17: in a run that follows another, a note the run before logged UPDATED
\* is read with the key glyphstream, gets no model call and no write, keeps
\* the file content the run before left, and has SKIPPED as its one log
\* entry of the run.
C17_SecondRunSkipsUpdated ==
    \A n \in NoteIds :
        (run >= 2 /\ UpdatedInRunBefore(n)) =>
            /\ disk[n] = disk_before[n]
            /\ model_calls[n] = 0
            /\ assigned[n] = <<>>
            /\ writes[n] = <<>>
            /\ loaded[n] # <<>> =>
                 /\ loaded[n][1] = disk_before[n]
                 /\ FileParses(loaded[n][1])
                 /\ HasKey(loaded[n][1].meta, "glyphstream")
                 /\ Len(RunEntries(n)) = 1
                 /\ RunEntries(n)[1].action = "SKIPPED"

\* a second run has ended, and it skipped a note the first run had updated
C17_Witness ==
    /\ run >= 2
    /\ RunComplete
    /\ \E n \in NoteIds :
         /\ UpdatedInRunBefore(n)
         /\ RunEntries(n)[1].action = "SKIPPED"
         /\ disk[n] = disk_before[n]

\* the keys process_vault sets, lines 235-240
ProgramKeys == {"glyphstream", "glyph_metadata", "last_processed", "stream_type"}

\* the entries of meta under other keys, in their order
OtherEntries(meta) ==
    LET IsOther(e) == e.key \notin ProgramKeys
    IN SelectSeq(meta, IsOther)

\* C18: when a note is logged UPDATED, the header of its file is the header
\* the run read with the four keys glyphstream, glyph_metadata,
\* last_processed and stream_type set: the keys that were there keep their
\* places, every entry under another key keeps its value, the four keys are
\* there once each, glyphstream is the glyph list of the UPDATED log entry,
\* and the keys of glyph_metadata are the symbols of glyphstream.
C18_UpdatedMetadataIsMerged ==
    \A n \in NoteIds :
        (RunEntries(n) # <<>> /\ RunEntries(n)[1].action = "UPDATED") =>
            LET old == loaded[n][1].meta
                new == disk[n].meta
                glyphs == RunEntries(n)[1].glyphs
            IN /\ OtherEntries(new) = OtherEntries(old)
               /\ Len(new) >= Len(old)
               /\ \A i \in 1..Len(old) : new[i].key = old[i].key
               /\ \A i, j \in 1..Len(new) : i # j => new[i].key # new[j].key
               /\ \A k \in ProgramKeys : HasKey(new, k)
               /\ glyphs # <<>>
               /\ Get(new, "glyphstream", NullVal) = ListVal(glyphs)
               /\ Get(new, "glyph_metadata", NullVal).t = "map"
               /\ DOMAIN Get(new, "glyph_metadata", NullVal).v
                    = {glyphs[i] : i \in 1..Len(glyphs)}
               /\ Get(new, "stream_type", NullVal) \in {StrVal("personal"), StrVal("shared")}

\* a note is logged UPDATED whose header had one of the four keys and
\* entries under two other keys before
C18_Witness ==
    \E n \in NoteIds :
        /\ RunEntries(n) # <<>>
        /\ RunEntries(n)[1].action = "UPDATED"
        /\ HasKey(loaded[n][1].meta, "stream_type")
        /\ Len(OtherEntries(loaded[n][1].meta)) = 2
        /\ Len(disk[n].meta) = 6

\* the value under tags is a list that holds the tag shared_experience
HasSharedTag(meta) ==
    LET tags == Get(meta, "tags", ListVal(<<>>))
    IN /\ tags.t = "list"
       /\ \E i \in 1..Len(tags.v) : tags.v[i] = "shared_experience"

\* C19: a note without the key glyphstream is classified, as Shared if its
\* tags hold the tag shared_experience and as Personal if not; the stream
\* assigned to it respects the maximum of that kind, and the stream_type
\* written for it names that kind.
C19_SharedIffTagged ==
    \A n \in NoteIds :
        Unprocessed(n) =>
            LET personal == ~HasSharedTag(loaded[n][1].meta)
            IN /\ (idx = n /\ pc \in {"assign", "write", "sleep"}) =>
                    is_personal = personal
               /\ \A i \in 1..Len(assigned[n]) :
                    Len(assigned[n][i]) <= max_glyphs(personal)
               /\ (Through(n) /\ RunEntries(n) # <<>>) =>
                    /\ RunEntries(n)[1].action # "ERROR"
                    /\ RunEntries(n)[1].action = "UPDATED" =>
                         Get(disk[n].meta, "stream_type", NullVal)
                            = StrVal(IF personal THEN "personal" ELSE "shared")

=============================================================================
